---- MODULE Spec2Model ----
(***************************************************************************)
(* Model of the tiger-claude command line client (claude_powerbook.py) and *)
(* of its diagnostic script (test_setup.py).                               *)
(*                                                                         *)
(* Spec     : claude_powerbook.py, run as a script (main) or imported and  *)
(*            called by a host program that may change os.environ.         *)
(* SpecDiag : test_setup.py, main().                                       *)
(*                                                                         *)
(* Python strings built with f-strings are records [fmt, code, arg,        *)
(* bytesRepr]: the format text, the interpolated status code, the          *)
(* interpolated text, and whether that text is the repr of a bytes object. *)
(* The text of an exception is represented by the exception's class name.  *)
(***************************************************************************)
EXTENDS Integers, Sequences, FiniteSets, TLC

VARIABLES
    entry,              \* "script": __name__ == '__main__'; "import": imported by a host
    argv,               \* sys.argv[1:]
    environ,            \* os.environ.get('ANTHROPIC_API_KEY', ''), "" when unset
    ANTHROPIC_API_KEY,  \* the module global of claude_powerbook.py
    envAtLoad,          \* history: environ when the module body ran
    pc,                 \* position of the process
    exitStatus,         \* -1 while running, then the process exit status
    out,                \* what the last step printed (sequence of messages)
    enteredLoop,        \* history: the while loop of interactive_mode was entered
    nLines,             \* input events consumed by input()
    lastInput,          \* the last input event of the interactive loop
    nCalls,             \* calls made by the host
    netCalls,           \* number of urlopen() calls issued
    lastCall,           \* the last call of send_to_claude / call_claude_api
    lastReq,            \* the request that call handed to urlopen(), if any
    ret,                \* how that call ended: a returned string or a raised exception
    diagEnv,            \* test_setup.py: the runtime the diagnostics run in
    diagPc,             \* test_setup.py: position in main()
    results,            \* test_setup.py: the results list of main()
    summary,            \* test_setup.py: the lines of the summary table
    verdict             \* test_setup.py: "none", "success" or "problems"

clientVars == <<entry, argv, environ, ANTHROPIC_API_KEY, envAtLoad, pc,
                exitStatus, out, enteredLoop, nLines, lastInput, nCalls, netCalls,
                lastCall, lastReq, ret>>
diagVars == <<diagEnv, diagPc, results, summary, verdict>>
vars == <<clientVars, diagVars>>

(***************************************************************************)
(* Bounds                                                                  *)
(***************************************************************************)
MaxLines == 2       \* input events read by one interactive session
MaxCalls == 2       \* calls a host makes after importing the module

(***************************************************************************)
(* Messages                                                                *)
(***************************************************************************)
Msg(fmt, code, arg, bytesRepr) ==
    [fmt |-> fmt, code |-> code, arg |-> arg, bytesRepr |-> bytesRepr]
Lit(s) == Msg(s, 0, "", FALSE)
Text(s) == Msg("{}", 0, s, FALSE)

NoMsg == Lit("")
KeyNotSetMsg == Lit("ERROR: ANTHROPIC_API_KEY environment variable not set")
UnexpectedFormatMsg == Lit("ERROR: Unexpected response format")
ApiErrorMsg(code, message) == Msg("API Error ({code}): {message}", code, message, FALSE)
HttpErrorMsg(code, rawBody) == Msg("HTTP Error {code}: {error_body}", code, rawBody, TRUE)
ConnectionErrorMsg(reason) == Msg("Connection Error: {reason}", 0, reason, FALSE)
OtherErrorMsg(excText) == Msg("Error: {e}", 0, excText, FALSE)

Returned(m) == [kind |-> "return", msg |-> m, exc |-> ""]
Raised(e) == [kind |-> "raise", msg |-> NoMsg, exc |-> e]
NoRet == [kind |-> "none", msg |-> NoMsg, exc |-> ""]

(***************************************************************************)
(* JSON values as json.loads returns them.  Every value has the same       *)
(* shape: a tag, a scalar text and a sequence of <<key, value>> children   *)
(* (the key is "" for the elements of an array).                           *)
(***************************************************************************)
J(t, s, kids) == [t |-> t, s |-> s, kids |-> kids]
JNull == J("null", "", <<>>)
JNum(s) == J("num", s, <<>>)
JStr(s) == J("str", s, <<>>)
JArr(elems) == J("arr", "", [i \in DOMAIN elems |-> <<"", elems[i]>>])
JObj(pairs) == J("obj", "", pairs)
JInvalid == J("invalid", "", <<>>)

HasKey(j, k) == \E i \in DOMAIN j.kids : j.kids[i][1] = k
GetKey(j, k) == j.kids[CHOOSE i \in DOMAIN j.kids : j.kids[i][1] = k][2]

\* A Python evaluation step: a value, or the exception it raised.
Val(j) == [ok |-> TRUE, val |-> j, exc |-> ""]
Exc(e) == [ok |-> FALSE, val |-> JNull, exc |-> e]

\* key in x
PyIn(k, j) ==
    CASE j.t = "obj" -> [ok |-> TRUE, val |-> HasKey(j, k), exc |-> ""]
      [] j.t = "arr" -> [ok |-> TRUE,
                         val |-> \E i \in DOMAIN j.kids :
                                    /\ j.kids[i][2].t = "str"
                                    /\ j.kids[i][2].s = k,
                         exc |-> ""]
      [] j.t = "str" -> [ok |-> TRUE, val |-> (j.s = k), exc |-> ""]
      [] OTHER -> [ok |-> FALSE, val |-> FALSE, exc |-> "TypeError"]

\* len(x) > 0
PyNonEmpty(j) ==
    CASE j.t \in {"obj", "arr"} -> [ok |-> TRUE, val |-> Len(j.kids) > 0, exc |-> ""]
      [] j.t = "str" -> [ok |-> TRUE, val |-> (j.s # ""), exc |-> ""]
      [] OTHER -> [ok |-> FALSE, val |-> FALSE, exc |-> "TypeError"]

\* x[0]
PyFirst(j) ==
    CASE j.t = "arr" -> IF Len(j.kids) > 0 THEN Val(j.kids[1][2]) ELSE Exc("IndexError")
      [] j.t = "str" -> IF j.s # "" THEN Val(JStr(j.s)) ELSE Exc("IndexError")
      [] j.t = "obj" -> Exc("KeyError")
      [] OTHER -> Exc("TypeError")

\* x[k] for a string k
PyItem(j, k) ==
    CASE j.t = "obj" -> IF HasKey(j, k) THEN Val(GetKey(j, k)) ELSE Exc("KeyError")
      [] OTHER -> Exc("TypeError")

\* x.get(k, default)
PyGet(j, k, default) ==
    CASE j.t = "obj" -> IF HasKey(j, k) THEN Val(GetKey(j, k)) ELSE Val(default)
      [] OTHER -> Exc("AttributeError")

\* str(x), as an f-string renders a decoded JSON value
PyStr(j) ==
    CASE j.t = "str" -> j.s
      [] j.t = "null" -> "None"
      [] j.t = "num" -> j.s
      [] j.t = "arr" -> "[...]"
      [] OTHER -> "{...}"

(***************************************************************************)
(* Response bodies: the bytes on the wire (raw), whether they decode as    *)
(* UTF-8, and what json.loads makes of them.                               *)
(***************************************************************************)
Body(raw, utf8, json) == [raw |-> raw, utf8 |-> utf8, json |-> json]
NoBody == Body("", TRUE, JInvalid)

JsonLoads(body) ==
    IF body.utf8 /\ body.json.t # "invalid" THEN Val(body.json) ELSE Exc("ValueError")

(***************************************************************************)
(* What urlopen() can do with one request.                                 *)
(*   ok        : a 2xx response; readOk says whether response.read()       *)
(*               returned the body or raised                               *)
(*   http      : urllib.error.HTTPError with a status code; readOk says    *)
(*               whether e.read() returned the error body or raised        *)
(*   url       : urllib.error.URLError (DNS, refused connection, TLS)      *)
(*   exc       : any other exception out of urlopen()                      *)
(*   interrupt : KeyboardInterrupt delivered while urlopen() blocks        *)
(***************************************************************************)
Net(kind, code, body, readOk, reason) ==
    [kind |-> kind, code |-> code, body |-> body, readOk |-> readOk, reason |-> reason]
NoNet == Net("none", 0, NoBody, TRUE, "")

TextBlock(s) == JObj(<< <<"text", JStr(s)>> >>)

SuccessBodies == <<
    Body("{\"content\":[{\"text\":\"hi\"}]}", TRUE,
         JObj(<< <<"content", JArr(<<TextBlock("hi")>>)>> >>)),
    Body("{\"content\":[{\"text\":\"one\"},{\"text\":\"two\"}]}", TRUE,
         JObj(<< <<"content", JArr(<<TextBlock("one"), TextBlock("two")>>)>> >>)),
    Body("{\"content\":[]}", TRUE, JObj(<< <<"content", JArr(<<>>)>> >>)),
    Body("{\"id\":\"msg_1\"}", TRUE, JObj(<< <<"id", JStr("msg_1")>> >>)),
    Body("[]", TRUE, JArr(<<>>)),
    Body("null", TRUE, JNull),
    Body("{\"content\":null}", TRUE, JObj(<< <<"content", JNull>> >>)),
    Body("{\"content\":[{\"type\":\"image\"}]}", TRUE,
         JObj(<< <<"content", JArr(<<JObj(<< <<"type", JStr("image")>> >>)>>)>> >>)),
    Body("<html>", TRUE, JInvalid),
    Body("\\xff\\xfe", FALSE, JInvalid) >>

ErrorBodies == <<
    Body("{\"error\":{\"message\":\"overloaded\"}}", TRUE,
         JObj(<< <<"error", JObj(<< <<"message", JStr("overloaded")>> >>)>> >>)),
    Body("{\"error\":{\"type\":\"api_error\"}}", TRUE,
         JObj(<< <<"error", JObj(<< <<"type", JStr("api_error")>> >>)>> >>)),
    Body("{}", TRUE, JObj(<<>>)),
    Body("{\"error\":\"denied\"}", TRUE, JObj(<< <<"error", JStr("denied")>> >>)),
    Body("[]", TRUE, JArr(<<>>)),
    Body("Bad Gateway", TRUE, JInvalid) >>

NetOutcomes ==
    [i \in DOMAIN SuccessBodies |-> Net("ok", 200, SuccessBodies[i], TRUE, "")]
    \o << Net("ok", 200, NoBody, FALSE, "IncompleteRead") >>
    \o [i \in DOMAIN ErrorBodies |->
            Net("http", IF i % 2 = 1 THEN 401 ELSE 529, ErrorBodies[i], TRUE, "")]
    \o << Net("http", 529, ErrorBodies[1], TRUE, ""),
          Net("http", 529, NoBody, FALSE, "ConnectionResetError"),
          Net("url", 0, NoBody, TRUE, "Connection refused"),
          Net("exc", 0, NoBody, TRUE, "TimeoutError"),
          Net("interrupt", 0, NoBody, TRUE, "KeyboardInterrupt") >>

(***************************************************************************)
(* The file system read_file() sees: for each path, what open()/read()     *)
(* does.  Any other path does not exist.                                   *)
(***************************************************************************)
Paths == {"a.py", "empty.txt", "missing.txt", "bin.dat"}

\* open(filepath, 'r') and f.read()
OpenAndRead(filepath) ==
    CASE filepath = "a.py" -> [kind |-> "content", text |-> "print(1)", exc |-> ""]
      [] filepath = "empty.txt" -> [kind |-> "content", text |-> "", exc |-> ""]
      [] filepath = "bin.dat" -> [kind |-> "raise", text |-> "", exc |-> "UnicodeDecodeError"]
      [] OTHER -> [kind |-> "raise", text |-> "", exc |-> "IOError"]

\* read_file: the content, None for an IOError, any other exception propagates
read_file(filepath) ==
    LET r == OpenAndRead(filepath)
    IN  IF r.kind = "raise" /\ r.exc = "IOError"
        THEN [kind |-> "none", text |-> "", exc |-> ""]
        ELSE r

(***************************************************************************)
(* Configuration constants of claude_powerbook.py                          *)
(***************************************************************************)
API_URL == "https://api.anthropic.com/v1/messages"
API_VERSION == "2023-06-01"
MODEL == "claude-sonnet-4-20250514"
MAX_TOKENS == 4000
PLACEHOLDER == "[Could not read file]"

Content(prompt, header, sections) ==
    [prompt |-> prompt, header |-> header, sections |-> sections]
Section(path, text) == [path |-> path, text |-> text]

Request(key, content) ==
    [sent |-> TRUE, url |-> API_URL, key |-> key, version |-> API_VERSION,
     model |-> MODEL, max_tokens |-> MAX_TOKENS, content |-> content]
NoReq ==
    [sent |-> FALSE, url |-> "", key |-> "", version |-> "", model |-> "",
     max_tokens |-> 0, content |-> Content(<<>>, FALSE, <<>>)]

(***************************************************************************)
(* call_claude_api                                                         *)
(***************************************************************************)
\* Faulty variant of ApiKeyInUse: the key is read from the environment at each call.
ApiKeyFromEnviron == environ

\* The key call_claude_api tests and sends: the module global (lines 56, 75).
ApiKeyInUse == ANTHROPIC_API_KEY

\* Lines 86-89: the reply text out of the decoded success body.
ExtractText(result) ==
    LET has == PyIn("content", result)
    IN  IF ~has.ok THEN OtherErrorMsg(has.exc)
        ELSE IF ~has.val THEN UnexpectedFormatMsg
        ELSE
          LET content == PyItem(result, "content")
          IN  IF ~content.ok THEN OtherErrorMsg(content.exc)
              ELSE
                LET nonEmpty == PyNonEmpty(content.val)
                IN  IF ~nonEmpty.ok THEN OtherErrorMsg(nonEmpty.exc)
                    ELSE IF ~nonEmpty.val THEN UnexpectedFormatMsg
                    ELSE
                      LET first == PyFirst(content.val)
                      IN  IF ~first.ok THEN OtherErrorMsg(first.exc)
                          ELSE
                            LET text == PyItem(first.val, "text")
                            IN  IF ~text.ok THEN OtherErrorMsg(text.exc)
                                ELSE Text(PyStr(text.val))

\* Lines 82-89: a 2xx response is read, decoded, parsed and the text extracted;
\* whatever is raised on the way is caught by `except Exception` (line 100).
HandleSuccess(net) ==
    IF ~net.readOk THEN Returned(OtherErrorMsg(net.reason))
    ELSE IF ~net.body.utf8 THEN Returned(OtherErrorMsg("UnicodeDecodeError"))
    ELSE
      LET result == JsonLoads(net.body)
      IN  IF ~result.ok THEN Returned(OtherErrorMsg("JSONDecodeError"))
          ELSE Returned(ExtractText(result.val))

\* Faulty variant of DescribeHttpError: the error body is never parsed.
DescribeHttpErrorUnparsed(code, error_body) == HttpErrorMsg(code, error_body.raw)

\* Lines 94-97: the error body is parsed and error.message surfaced, any failure of
\* that falls back to the status code and the raw body.
DescribeHttpError(code, error_body) ==
    LET error_json == JsonLoads(error_body)
        fallback == HttpErrorMsg(code, error_body.raw)
    IN  IF ~error_json.ok THEN fallback
        ELSE
          LET error == PyGet(error_json.val, "error", JObj(<<>>))
          IN  IF ~error.ok THEN fallback
              ELSE
                LET message == PyGet(error.val, "message", JStr("Unknown error"))
                IN  IF ~message.ok THEN fallback
                    ELSE ApiErrorMsg(code, PyStr(message.val))

\* Lines 91-97: e.read() runs inside the except clause, outside its inner try, so
\* an exception out of it leaves call_claude_api.
HandleHttpError(net) ==
    IF ~net.readOk THEN Raised(net.reason)
    ELSE Returned(DescribeHttpError(net.code, net.body))

\* Lines 68-101, once the request is built: what the call ends with for each
\* behaviour of urlopen().
HandleResponse(net) ==
    CASE net.kind = "ok" -> HandleSuccess(net)
      [] net.kind = "http" -> HandleHttpError(net)
      [] net.kind = "url" -> Returned(ConnectionErrorMsg(net.reason))
      [] net.kind = "exc" -> Returned(OtherErrorMsg(net.reason))
      [] OTHER -> Raised("KeyboardInterrupt")

\* call_claude_api(prompt) when urlopen() behaves as `net`: the result, and the
\* request handed to urlopen() (NoReq when none was).
call_claude_api(content, net) ==
    IF ApiKeyInUse = ""
    THEN [ret |-> Returned(KeyNotSetMsg), req |-> NoReq, net |-> NoNet]
    ELSE [ret |-> HandleResponse(net), req |-> Request(ApiKeyInUse, content), net |-> net]

(***************************************************************************)
(* send_to_claude                                                          *)
(***************************************************************************)
\* Line 117: `if content:` is true of a non-empty string only.
Truthy(r) == r.kind = "content" /\ r.text # ""

\* Lines 115-120: one section per path; a read that raises ends the loop.
RECURSIVE BuildSections(_)
BuildSections(files) ==
    IF files = <<>> THEN [ok |-> TRUE, sections |-> <<>>, exc |-> ""]
    ELSE
      LET r == read_file(Head(files))
      IN  IF r.kind = "raise" THEN [ok |-> FALSE, sections |-> <<>>, exc |-> r.exc]
          ELSE
            LET rest == BuildSections(Tail(files))
                sec == Section(Head(files), IF Truthy(r) THEN r.text ELSE PLACEHOLDER)
            IN  IF ~rest.ok THEN rest
                ELSE [ok |-> TRUE, sections |-> <<sec>> \o rest.sections, exc |-> ""]

\* send_to_claude(prompt, context_files) when urlopen() behaves as `net`.
send_to_claude(prompt, context_files, net) ==
    IF context_files = <<>>
    THEN call_claude_api(Content(prompt, FALSE, <<>>), net)
    ELSE
      LET built == BuildSections(context_files)
      IN  IF ~built.ok
          THEN [ret |-> Raised(built.exc), req |-> NoReq, net |-> NoNet]
          ELSE call_claude_api(Content(prompt, TRUE, built.sections), net)

Sent(r) == IF r.req.sent THEN 1 ELSE 0

\* The behaviours of urlopen() a call can meet: none is drawn when no key is
\* loaded, since urlopen() is then not reached.
NetChoices == IF ApiKeyInUse = "" THEN {1} ELSE DOMAIN NetOutcomes

(***************************************************************************)
(* Inputs                                                                  *)
(***************************************************************************)
KeyValues == {"", "sk-ant-A", "sk-ant-B"}

Argvs == { <<>>, <<"--check-ssl">>, <<"--check-ssl", "a.py">>, <<"hello">>,
           <<"hello", "a.py">>, <<"hello", "missing.txt", "a.py">>,
           <<"hello", "empty.txt">>, <<"hello", "bin.dat">> }

Prompts == { <<"hi">> }
FileLists ==
    {<<>>} \cup {<<f>> : f \in Paths}
    \cup { <<"a.py", "missing.txt">>, <<"missing.txt", "a.py">>, <<"a.py", "empty.txt">>,
           <<"bin.dat", "a.py">> }

Verbs == {"ask", "file", "explain", "fix", "review", "test"}
FirstWords == Verbs \cup {"quit", "hello"}

\* The lines typed at the prompt, as their words; a raw line may carry leading and
\* trailing whitespace (pad).
InputLines ==
    {<<>>} \cup {<<w>> : w \in FirstWords}
    \cup {<<v, "a.py">> : v \in Verbs}
    \cup { <<"explain", "bin.dat">>, <<"fix", "hello">>, <<"quit", "hello">>,
           <<"hello", "hello">>, <<"ask", "hello">>,
           <<"ask", "hello", "hello">>, <<"file", "a.py", "hello">>,
           <<"file", "bin.dat", "hello">>, <<"explain", "a.py", "hello">>,
           <<"file", "a.py", "what", "now">> }
RawLines ==
    {[pad |-> FALSE, words |-> w] : w \in InputLines}
    \cup {[pad |-> TRUE, words |-> w] : w \in {<<>>, <<"quit">>, <<"ask", "hello">>}}

\* line.strip()
Strip(raw) == raw.words

\* line.split(None, 2): the first two words, then the rest of the line as one part.
Split2(words) ==
    IF Len(words) <= 2 THEN [i \in DOMAIN words |-> <<words[i]>>]
    ELSE << <<words[1]>>, <<words[2]>>, SubSeq(words, 3, Len(words)) >>

\* " ".join(parts)
RECURSIVE Join(_)
Join(parts) == IF parts = <<>> THEN <<>> ELSE Head(parts) \o Join(Tail(parts))

Input(kind, words) == [kind |-> kind, words |-> words]
NoInput == Input("none", <<>>)

Call(fn, prompt, files, env, net) ==
    [fn |-> fn, prompt |-> prompt, files |-> files, environ |-> env, net |-> net]
NoCall == Call("none", <<>>, <<>>, "", NoNet)

\* The diagnostics variables while claude_powerbook.py runs.
NoDiagEnv == [pyOk |-> TRUE, ssl |-> "ok", key |-> "", certFile |-> FALSE, certFound |-> FALSE]

(***************************************************************************)
(* The process: module load and main()                                     *)
(***************************************************************************)
Init ==
    /\ entry \in {"script", "import"}
    /\ argv \in Argvs
    /\ entry = "import" => argv = <<>>
    /\ environ \in KeyValues
    /\ entry = "script" => environ \in {"", "sk-ant-A"}
    /\ ANTHROPIC_API_KEY = ""
    /\ envAtLoad = ""
    /\ pc = "start"
    /\ exitStatus = -1
    /\ out = <<>>
    /\ enteredLoop = FALSE
    /\ nLines = 0
    /\ lastInput = NoInput
    /\ nCalls = 0
    /\ netCalls = 0
    /\ lastCall = NoCall
    /\ lastReq = NoReq
    /\ ret = NoRet
    /\ diagEnv = NoDiagEnv
    /\ diagPc = "off"
    /\ results = <<>>
    /\ summary = <<>>
    /\ verdict = "none"

\* Line 16 runs once, when the module body is executed.
LoadModule ==
    /\ pc = "start"
    /\ ANTHROPIC_API_KEY' = environ
    /\ envAtLoad' = environ
    /\ pc' = IF entry = "script" THEN "main" ELSE "host"
    /\ UNCHANGED <<entry, argv, environ, exitStatus, out, enteredLoop, nLines, lastInput,
                   nCalls, netCalls, lastCall, lastReq, ret, diagVars>>

\* check_ssl() of claude_powerbook.py: what it prints.
SslReport(tls12) ==
    IF tls12 THEN <<Lit("Using: {ssl_version}")>>
    ELSE <<Lit("Using: {ssl_version}"), Lit("WARNING: TLS 1.2 support may not be available")>>

\* Faulty variant of InteractiveKeyMissing: a missing key is only warned about.
InteractiveKeyCheckWarns(key) == FALSE

\* Lines 134-137: interactive_mode returns before its loop when no key is loaded.
InteractiveKeyMissing(key) == key = ""

\* main(), no argument: interactive_mode() up to its first input().
MainInteractive ==
    /\ pc = "main"
    /\ Len(argv) = 0
    /\ \E tls12 \in BOOLEAN :
        IF InteractiveKeyMissing(ANTHROPIC_API_KEY)
        THEN /\ out' = SslReport(tls12)
                        \o <<Lit("ERROR: ANTHROPIC_API_KEY environment variable not set!"),
                             Lit("Set it with: export ANTHROPIC_API_KEY=sk-ant-...")>>
             /\ pc' = "exited"
             /\ exitStatus' = 0
             /\ UNCHANGED enteredLoop
        ELSE /\ out' = SslReport(tls12) \o <<Lit("Commands:")>>
             /\ pc' = "loop"
             /\ enteredLoop' = TRUE
             /\ UNCHANGED exitStatus
    /\ UNCHANGED <<entry, argv, environ, ANTHROPIC_API_KEY, envAtLoad, nLines, lastInput,
                   nCalls, netCalls, lastCall, lastReq, ret, diagVars>>

\* main(), --check-ssl
MainCheckSsl ==
    /\ pc = "main"
    /\ Len(argv) >= 1
    /\ argv[1] = "--check-ssl"
    /\ \E tls12 \in BOOLEAN :
        out' = <<Lit("Checking SSL configuration...")>> \o SslReport(tls12)
    /\ pc' = "exited"
    /\ exitStatus' = 0
    /\ UNCHANGED <<entry, argv, environ, ANTHROPIC_API_KEY, envAtLoad, enteredLoop, nLines,
                   lastInput, nCalls, netCalls, lastCall, lastReq, ret, diagVars>>

\* Lines 251-253 and 258-260: single-shot mode exits 1 when no key is loaded.
SingleShotKeyMissing(key) == key = ""

\* main(), one argument or more: a single request, its reply printed.
MainSingleShot ==
    /\ pc = "main"
    /\ Len(argv) >= 1
    /\ argv[1] # "--check-ssl"
    /\ IF SingleShotKeyMissing(ANTHROPIC_API_KEY)
       THEN /\ out' = <<Lit("ERROR: ANTHROPIC_API_KEY not set")>>
            /\ pc' = "exited"
            /\ exitStatus' = 1
            /\ UNCHANGED <<netCalls, lastCall, lastReq, ret>>
       ELSE \E n \in NetChoices :
              LET r == send_to_claude(<<argv[1]>>, Tail(argv), NetOutcomes[n])
              IN  /\ lastCall' = Call("send_to_claude", <<argv[1]>>, Tail(argv), environ, r.net)
                  /\ lastReq' = r.req
                  /\ ret' = r.ret
                  /\ netCalls' = netCalls + Sent(r)
                  /\ IF r.ret.kind = "return"
                     THEN /\ out' = <<r.ret.msg>>
                          /\ pc' = "exited"
                          /\ exitStatus' = 0
                     ELSE /\ out' = <<Lit("Traceback (most recent call last):")>>
                          /\ pc' = "crashed"
                          /\ exitStatus' = 1
    /\ UNCHANGED <<entry, argv, environ, ANTHROPIC_API_KEY, envAtLoad, enteredLoop, nLines,
                   lastInput, nCalls, diagVars>>

(***************************************************************************)
(* interactive_mode: one turn of the while loop                            *)
(***************************************************************************)
ExplainPrompt ==
    <<"Please explain what this code does, how it works, and any important details:">>
FixPrompt ==
    <<"Please review this code and suggest improvements, bug fixes, or optimizations:">>
ReviewPrompt ==
    <<"Please perform a thorough code review, checking for bugs, security issues, style problems, and suggesting improvements:">>
TestPrompt ==
    <<"Please generate unit tests for this code. Include edge cases and error conditions:">>

\* Faulty variant of MissingArgs: `ask` is not checked for its question.
MissingArgsAskUnchecked(command, parts) ==
    IF command = "ask" THEN FALSE ELSE Len(parts) < (IF command = "file" THEN 3 ELSE 2)

\* Lines 164, 173, 183, 195, 207, 219: the argument check of each verb.
MissingArgs(command, parts) ==
    IF command = "file" THEN Len(parts) < 3 ELSE Len(parts) < 2

UsageMsg(command) ==
    CASE command = "ask" -> Lit("Usage: ask <question>")
      [] command = "file" -> Lit("Usage: file <path> <question>")
      [] command = "explain" -> Lit("Usage: explain <path>")
      [] command = "fix" -> Lit("Usage: fix <path>")
      [] command = "review" -> Lit("Usage: review <path>")
      [] OTHER -> Lit("Usage: test <path>")

Banner(command) ==
    CASE command = "ask" -> Lit("Thinking...")
      [] command = "review" -> Lit("Reviewing...")
      [] command = "test" -> Lit("Generating tests...")
      [] OTHER -> Lit("Analyzing...")

\* The prompt and the context files each verb hands to send_to_claude.
VerbPrompt(command, parts) ==
    CASE command = "ask" -> Join(Tail(parts))
      [] command = "file" -> parts[3]
      [] command = "explain" -> ExplainPrompt
      [] command = "fix" -> FixPrompt
      [] command = "review" -> ReviewPrompt
      [] OTHER -> TestPrompt
VerbFiles(command, parts) == IF command = "ask" THEN <<>> ELSE <<parts[2][1]>>

\* Lines 154-231: what one stripped line makes the loop do.
\*   "skip": blank line, `continue`      "quit": break
\*   "usage": usage message, `continue`  "unknown": unknown command message
\*   "call": one call of send_to_claude
Dispatch(line) ==
    LET parts == Split2(line)
        command == IF parts # <<>> THEN parts[1][1] ELSE ""
    IN  IF line = <<>> THEN "skip"
        ELSE IF line = <<"quit">> THEN "quit"
        ELSE IF command \notin Verbs THEN "unknown"
        ELSE IF MissingArgs(command, parts) THEN "usage"
        ELSE "call"

\* Lines 233-236: only KeyboardInterrupt and EOFError are caught by the loop.
LoopCatches(exc) == exc \in {"KeyboardInterrupt", "EOFError"}

\* input() raises EOFError: the loop breaks, "Goodbye!" is printed, main returns.
LoopEof ==
    /\ pc = "loop"
    /\ lastInput' = Input("eof", <<>>)
    /\ out' = <<Lit("Goodbye!")>>
    /\ pc' = "exited"
    /\ exitStatus' = 0
    /\ UNCHANGED <<entry, argv, environ, ANTHROPIC_API_KEY, envAtLoad, enteredLoop, nLines,
                   nCalls, netCalls, lastCall, lastReq, ret, diagVars>>

\* KeyboardInterrupt while input() waits.
LoopInterrupt ==
    /\ pc = "loop"
    /\ nLines < MaxLines
    /\ nLines' = nLines + 1
    /\ lastInput' = Input("interrupt", <<>>)
    /\ out' = <<Lit("Use 'quit' to exit")>>
    /\ UNCHANGED <<entry, argv, environ, ANTHROPIC_API_KEY, envAtLoad, pc, exitStatus,
                   enteredLoop, nCalls, netCalls, lastCall, lastReq, ret, diagVars>>

\* input() returns a line that needs no request.
LoopLineNoCall ==
    /\ pc = "loop"
    /\ nLines < MaxLines
    /\ \E raw \in RawLines :
        LET line == Strip(raw)
            what == Dispatch(line)
            command == Split2(line)[1][1]
        IN  /\ what # "call"
            /\ lastInput' = Input("line", line)
            /\ out' = CASE what = "skip" -> <<>>
                        [] what = "quit" -> <<Lit("Goodbye!")>>
                        [] what = "unknown" -> <<Msg("Unknown command: {command}", 0, command, FALSE)>>
                        [] OTHER -> <<UsageMsg(command)>>
            /\ pc' = IF what = "quit" THEN "exited" ELSE "loop"
            /\ exitStatus' = IF what = "quit" THEN 0 ELSE exitStatus
    /\ nLines' = nLines + 1
    /\ UNCHANGED <<entry, argv, environ, ANTHROPIC_API_KEY, envAtLoad, enteredLoop,
                   nCalls, netCalls, lastCall, lastReq, ret, diagVars>>

\* input() returns a well-formed command: one call of send_to_claude, whose reply
\* is printed; an exception the loop does not catch ends the process.
LoopLineCall ==
    /\ pc = "loop"
    /\ nLines < MaxLines
    /\ \E raw \in RawLines, n \in NetChoices :
        LET line == Strip(raw)
            parts == Split2(line)
            command == parts[1][1]
            prompt == VerbPrompt(command, parts)
            files == VerbFiles(command, parts)
            r == send_to_claude(prompt, files, NetOutcomes[n])
        IN  /\ Dispatch(line) = "call"
            /\ lastInput' = Input("line", line)
            /\ lastCall' = Call("send_to_claude", prompt, files, environ, r.net)
            /\ lastReq' = r.req
            /\ ret' = r.ret
            /\ netCalls' = netCalls + Sent(r)
            /\ IF r.ret.kind = "return"
               THEN /\ out' = <<Banner(command), r.ret.msg>>
                    /\ UNCHANGED <<pc, exitStatus>>
               ELSE IF LoopCatches(r.ret.exc)
               THEN /\ out' = <<Banner(command), Lit("Use 'quit' to exit")>>
                    /\ UNCHANGED <<pc, exitStatus>>
               ELSE /\ out' = <<Banner(command), Lit("Traceback (most recent call last):")>>
                    /\ pc' = "crashed"
                    /\ exitStatus' = 1
    /\ nLines' = nLines + 1
    /\ UNCHANGED <<entry, argv, environ, ANTHROPIC_API_KEY, envAtLoad, enteredLoop,
                   nCalls, diagVars>>

(***************************************************************************)
(* The module imported by a host program (a test, a wrapper): the host     *)
(* calls its functions and may change os.environ between the calls.        *)
(***************************************************************************)
HostSetEnviron ==
    /\ pc = "host"
    /\ \E k \in KeyValues : k # environ /\ environ' = k
    /\ UNCHANGED <<entry, argv, ANTHROPIC_API_KEY, envAtLoad, pc, exitStatus, out,
                   enteredLoop, nLines, lastInput, nCalls, netCalls, lastCall, lastReq,
                   ret, diagVars>>

HostCallClaudeApi ==
    /\ pc = "host"
    /\ nCalls < MaxCalls
    /\ \E prompt \in Prompts, n \in NetChoices :
        LET r == call_claude_api(Content(prompt, FALSE, <<>>), NetOutcomes[n])
        IN  /\ lastCall' = Call("call_claude_api", prompt, <<>>, environ, r.net)
            /\ lastReq' = r.req
            /\ ret' = r.ret
            /\ netCalls' = netCalls + Sent(r)
    /\ nCalls' = nCalls + 1
    /\ UNCHANGED <<entry, argv, environ, ANTHROPIC_API_KEY, envAtLoad, pc, exitStatus, out,
                   enteredLoop, nLines, lastInput, diagVars>>

HostSendToClaude ==
    /\ pc = "host"
    /\ nCalls < MaxCalls
    /\ \E prompt \in Prompts, files \in FileLists, n \in NetChoices :
        LET r == send_to_claude(prompt, files, NetOutcomes[n])
        IN  /\ lastCall' = Call("send_to_claude", prompt, files, environ, r.net)
            /\ lastReq' = r.req
            /\ ret' = r.ret
            /\ netCalls' = netCalls + Sent(r)
    /\ nCalls' = nCalls + 1
    /\ UNCHANGED <<entry, argv, environ, ANTHROPIC_API_KEY, envAtLoad, pc, exitStatus, out,
                   enteredLoop, nLines, lastInput, diagVars>>

Next ==
    \/ LoadModule
    \/ MainInteractive
    \/ MainCheckSsl
    \/ MainSingleShot
    \/ LoopEof
    \/ LoopInterrupt
    \/ LoopLineNoCall
    \/ LoopLineCall
    \/ HostSetEnviron
    \/ HostCallClaudeApi
    \/ HostSendToClaude

Spec == Init /\ [][Next]_vars

(***************************************************************************)
(* test_setup.py: main() runs eight checks and prints a summary            *)
(***************************************************************************)
\* The runtime the diagnostics find.
\*   pyOk      : sys.version_info >= (3, 10)
\*   ssl       : "none" (import ssl fails), "old" (no PROTOCOL_TLSv1_2), "ok"
\*   key       : os.environ.get('ANTHROPIC_API_KEY', '')
\*   certFile  : SSL_CERT_FILE is set
\*   certFound : one of the well-known certificate locations exists
DiagEnvs ==
    [pyOk : BOOLEAN, ssl : {"none", "old", "ok"}, key : {"", "sk-ant-A", "other-key"},
     certFile : BOOLEAN, certFound : BOOLEAN]

CheckNames == <<"Python", "SSL/TLS", "JSON", "HTTP/HTTPS", "API Key", "Certificates",
                "HTTPS Connection", "API Call">>

\* A check's outcome: the boolean it returned, or the exception that left it.
Passed(b) == [raised |-> FALSE, passed |-> b, exc |-> ""]
Escaped(e) == [raised |-> TRUE, passed |-> FALSE, exc |-> e]

check_python(env) == Passed(env.pyOk)

check_ssl(env) == Passed(env.ssl = "ok")

\* json.dumps then json.loads of the fixed test object, compared with it.
TestObject == JObj(<< <<"test", JStr("value")>>, <<"number", JNum("42")>> >>)
JsonDumps(j) == Body("{\"test\": \"value\", \"number\": 42}", TRUE, j)
check_json(env) ==
    LET decoded == JsonLoads(JsonDumps(TestObject))
    IN  Passed(decoded.ok /\ decoded.val = TestObject)

\* urllib.request defines HTTPSHandler only when the ssl module could be imported;
\* without it HTTPSHandler() raises AttributeError, which `except ImportError`
\* does not catch.
check_urllib(env) ==
    IF env.ssl = "none" THEN Escaped("AttributeError") ELSE Passed(TRUE)

check_api_key(env) == Passed(env.key \in {"sk-ant-A"})

check_certificates(env) == Passed(env.certFound \/ env.certFile)

\* Any HTTP-level answer proves the TLS connection; URLError and anything else fail.
test_https_connection(env, net) == Passed(net.kind \in {"ok", "http"})

\* One live call: passes when the reply text could be extracted.
test_api_call(env, net) ==
    IF env.key = "" THEN Passed(FALSE)
    ELSE IF net.kind # "ok" THEN Passed(FALSE)
    ELSE LET r == HandleSuccess(net) IN Passed(r.msg.fmt = "{}")

Result(name, passed) == [name |-> name, passed |-> passed]

InitDiag ==
    /\ diagEnv \in DiagEnvs
    /\ diagPc = "Python"
    /\ results = <<>>
    /\ summary = <<>>
    /\ verdict = "none"
    /\ entry = "script"
    /\ argv = <<>>
    /\ environ = diagEnv.key
    /\ ANTHROPIC_API_KEY = ""
    /\ envAtLoad = ""
    /\ pc = "start"
    /\ exitStatus = -1
    /\ out = <<>>
    /\ enteredLoop = FALSE
    /\ nLines = 0
    /\ lastInput = NoInput
    /\ nCalls = 0
    /\ netCalls = 0
    /\ lastCall = NoCall
    /\ lastReq = NoReq
    /\ ret = NoRet

\* results.append((name, check())): the check's boolean is recorded and main goes
\* on to the next check; an exception out of the check ends main.
RunCheck(name, outcome, next) ==
    /\ diagPc = name
    /\ IF outcome.raised
       THEN /\ diagPc' = "crashed"
            /\ exitStatus' = 1
            /\ UNCHANGED results
       ELSE /\ diagPc' = next
            /\ results' = Append(results, Result(name, outcome.passed))
            /\ UNCHANGED exitStatus
    /\ UNCHANGED <<entry, argv, environ, ANTHROPIC_API_KEY, envAtLoad, pc, out,
                   enteredLoop, nLines, lastInput, nCalls, netCalls, lastCall, lastReq,
                   ret, diagEnv, summary, verdict>>

DiagPython == RunCheck("Python", check_python(diagEnv), "SSL/TLS")
DiagSsl == RunCheck("SSL/TLS", check_ssl(diagEnv), "JSON")
DiagJson == RunCheck("JSON", check_json(diagEnv), "HTTP/HTTPS")
DiagUrllib == RunCheck("HTTP/HTTPS", check_urllib(diagEnv), "API Key")
DiagApiKey == RunCheck("API Key", check_api_key(diagEnv), "Certificates")
DiagCertificates == RunCheck("Certificates", check_certificates(diagEnv), "HTTPS Connection")
DiagHttpsConnection ==
    \E n \in DOMAIN NetOutcomes :
        /\ NetOutcomes[n].kind # "interrupt"
        /\ RunCheck("HTTPS Connection", test_https_connection(diagEnv, NetOutcomes[n]),
                    "API Call")
DiagApiCall ==
    \E n \in DOMAIN NetOutcomes :
        /\ NetOutcomes[n].kind # "interrupt"
        /\ RunCheck("API Call", test_api_call(diagEnv, NetOutcomes[n]), "Summary")

\* Lines 288-306: one line per result, then the overall verdict.
DiagSummary ==
    /\ diagPc = "Summary"
    /\ summary' = [i \in DOMAIN results |->
                     [name |-> results[i].name,
                      status |-> IF results[i].passed THEN "PASS" ELSE "FAIL"]]
    /\ verdict' = IF \A i \in DOMAIN results : results[i].passed
                  THEN "success" ELSE "problems"
    /\ diagPc' = "done"
    /\ exitStatus' = 0
    /\ UNCHANGED <<entry, argv, environ, ANTHROPIC_API_KEY, envAtLoad, pc, out,
                   enteredLoop, nLines, lastInput, nCalls, netCalls, lastCall, lastReq,
                   ret, diagEnv, results>>

NextDiag ==
    \/ DiagPython
    \/ DiagSsl
    \/ DiagJson
    \/ DiagUrllib
    \/ DiagApiKey
    \/ DiagCertificates
    \/ DiagHttpsConnection
    \/ DiagApiCall
    \/ DiagSummary

SpecDiag == InitDiag /\ [][NextDiag]_vars

(***************************************************************************)
(* Properties of claude_powerbook.py, checked under Spec                   *)
(***************************************************************************)
CallMade == lastCall.fn # "none"

\* The last call got as far as call_claude_api (send_to_claude did not raise
\* while reading the context files).
ApiReached ==
    /\ CallMade
    /\ lastCall.fn = "call_claude_api" \/ ret.kind = "return" \/ lastReq.sent

C2_CallClaudeApiNeverRaises ==
    (lastCall.fn = "call_claude_api" /\ lastCall.net.kind # "interrupt")
        => ret.kind = "return"

\* What the section of a path has to carry according to C3.
ExpectedSectionText(path) ==
    IF OpenAndRead(path).kind = "content" THEN OpenAndRead(path).text ELSE PLACEHOLDER

\* C3, as claimed: with a key loaded, send_to_claude with a non-empty list of paths
\* always issues the request, and the content sent holds one section per path, in
\* order, carrying the file's content when the read succeeded (empty included) and
\* the placeholder when it failed for any reason.
C3_OneSectionPerPath ==
    (lastCall.fn = "send_to_claude" /\ lastCall.files # <<>> /\ ANTHROPIC_API_KEY # "")
        => /\ lastReq.sent
           /\ Len(lastReq.content.sections) = Len(lastCall.files)
           /\ \A i \in DOMAIN lastCall.files :
                /\ i \in DOMAIN lastReq.content.sections
                /\ lastReq.content.sections[i].path = lastCall.files[i]
                /\ lastReq.content.sections[i].text = ExpectedSectionText(lastCall.files[i])

\* The decoded body of a 2xx response the last call received, when it parsed.
ParsedSuccess == lastCall.net.kind = "ok" /\ lastCall.net.readOk /\ JsonLoads(lastCall.net.body).ok
ContentPresent(j) == j.t = "obj" /\ HasKey(j, "content")
ContentHasText(j) ==
    /\ ContentPresent(j)
    /\ GetKey(j, "content").t = "arr"
    /\ Len(GetKey(j, "content").kids) > 0
    /\ GetKey(j, "content").kids[1][2].t = "obj"
    /\ HasKey(GetKey(j, "content").kids[1][2], "text")
ContentMissingOrEmpty(j) ==
    \/ ~ContentPresent(j)
    \/ GetKey(j, "content").t = "arr" /\ Len(GetKey(j, "content").kids) = 0

\* C4, as claimed: for a 2xx response whose body parses as JSON, call_claude_api
\* returns exactly content[0].text when content is present and non-empty, and the
\* fixed "unexpected response format" message in every case where content is
\* missing or empty.
C4_TextOrUnexpectedFormat ==
    ParsedSuccess =>
        LET j == lastCall.net.body.json
        IN  /\ ContentHasText(j) =>
                ret = Returned(Text(GetKey(GetKey(j, "content").kids[1][2], "text").s))
            /\ ContentMissingOrEmpty(j) => ret = Returned(UnexpectedFormatMsg)

\* The error body the last call read from an HTTP error response.
ErrorBodyRead == lastCall.net.kind = "http" /\ lastCall.net.readOk
IsJsonObject(b) == b.utf8 /\ b.json.t = "obj"
ErrorIsObject(b) ==
    IsJsonObject(b) /\ HasKey(b.json, "error") /\ GetKey(b.json, "error").t = "obj"
HasErrorMessage(b) == ErrorIsObject(b) /\ HasKey(GetKey(b.json, "error"), "message")
ErrorMessageOf(b) == GetKey(GetKey(b.json, "error"), "message").s

\* C5, as claimed: for an HTTP error response the returned string holds the status
\* code and error.message when the body is JSON containing error.message, and the
\* status code plus the raw body whenever the body cannot be parsed that way.
C5_MessageOrRawBody ==
    ErrorBodyRead =>
        LET b == lastCall.net.body
            code == lastCall.net.code
        IN  /\ HasErrorMessage(b) => ret = Returned(ApiErrorMsg(code, ErrorMessageOf(b)))
            /\ ~HasErrorMessage(b) => ret = Returned(HttpErrorMsg(code, b.raw))

\* C5, amended: for an HTTP error response whose body was read, the returned string
\* holds the status code and error.message when the body is a JSON object whose
\* error member is an object with a message; the status code and the fixed text
\* "Unknown error" when the body is a JSON object with no error member, or with an
\* error object that has no message; and the status code plus the raw body (as the
\* repr of the bytes) in every other case: a body that is not JSON, JSON that is not
\* an object, or an error member that is not an object.
C5_MessageUnknownOrRawBody ==
    ErrorBodyRead =>
        LET b == lastCall.net.body
            code == lastCall.net.code
        IN  /\ HasErrorMessage(b) => ret = Returned(ApiErrorMsg(code, ErrorMessageOf(b)))
            /\ (IsJsonObject(b) /\ ~HasKey(b.json, "error"))
                    => ret = Returned(ApiErrorMsg(code, "Unknown error"))
            /\ (ErrorIsObject(b) /\ ~HasErrorMessage(b))
                    => ret = Returned(ApiErrorMsg(code, "Unknown error"))
            /\ (~IsJsonObject(b) \/ (HasKey(b.json, "error") /\ ~ErrorIsObject(b)))
                    => ret = Returned(HttpErrorMsg(code, b.raw))

\* C5, witness: an error response with a JSON object body that has no
\* error.message was answered with "Unknown error".
C5_Witness ==
    /\ ErrorBodyRead
    /\ IsJsonObject(lastCall.net.body)
    /\ ~HasErrorMessage(lastCall.net.body)
    /\ ret = Returned(ApiErrorMsg(lastCall.net.code, "Unknown error"))

\* C6, as claimed: once the loop runs it ends only on `quit` or on end-of-input,
\* and then the process exits cleanly.
C6_LoopEndsOnlyOnQuitOrEof ==
    (enteredLoop /\ pc # "loop")
        => /\ lastInput = Input("eof", <<>>) \/ lastInput = Input("line", <<"quit">>)
           /\ pc = "exited"
           /\ exitStatus = 0

\* C7, as claimed: the key of a call of call_claude_api is the value of the
\* environment variable when the call is made: absent, the call fails with the "key
\* not set" message and no request; present, that value is the one sent.
C7_KeyIsEnvironAtCallTime ==
    lastCall.fn = "call_claude_api"
        => /\ lastCall.environ = "" => (ret = Returned(KeyNotSetMsg) /\ ~lastReq.sent)
           /\ lastCall.environ # "" => (lastReq.sent /\ lastReq.key = lastCall.environ)

\* C7, amended: the key of a call of call_claude_api is the value the environment
\* variable held when the module was loaded: absent then, every call fails with the
\* "key not set" message and no request; present then, that value is the one sent,
\* whatever the variable holds when the call is made.
C7_KeyIsEnvironAtLoad ==
    ApiReached
        => /\ envAtLoad = "" => (ret = Returned(KeyNotSetMsg) /\ ~lastReq.sent)
           /\ envAtLoad # "" => (lastReq.sent /\ lastReq.key = envAtLoad)

\* C7, witness: a request was sent while the environment held another credential
\* than the one sent.
C7_Witness ==
    /\ lastCall.fn = "call_claude_api"
    /\ lastReq.sent
    /\ lastCall.environ # ""
    /\ lastCall.environ # envAtLoad
    /\ lastReq.key = envAtLoad

Interactive == entry = "script" /\ argv = <<>>
SingleShot == entry = "script" /\ argv # <<>> /\ argv[1] # "--check-ssl"
Ended == pc \in {"exited", "crashed"}

\* C8, as claimed: without a credential single-shot mode exits non-zero, whereas an
\* interactive session still enters its command loop and exits zero.
C8_MissingKeyFatalOnlyInSingleShot ==
    (environ = "" /\ Ended)
        => /\ SingleShot => exitStatus # 0
           /\ Interactive => (enteredLoop /\ exitStatus = 0)

\* C8, amended: a missing credential ends both modes before any command is taken:
\* single-shot mode prints an error and exits with a non-zero status; interactive
\* mode prints an error and a hint and returns without entering its command loop,
\* reading no input and issuing no request, and the process exits with status zero.
C8_MissingKeyEndsBothModes ==
    (environ = "" /\ pc \notin {"start", "main"})
        => /\ SingleShot =>
                /\ pc = "exited" /\ exitStatus = 1 /\ netCalls = 0
                /\ out = <<Lit("ERROR: ANTHROPIC_API_KEY not set")>>
           /\ Interactive =>
                /\ pc = "exited" /\ exitStatus = 0 /\ netCalls = 0
                /\ ~enteredLoop /\ nLines = 0
                /\ \E i \in DOMAIN out :
                    out[i] = Lit("ERROR: ANTHROPIC_API_KEY environment variable not set!")

\* C8, witness: an interactive session without a credential has ended.
C8_Witness == Interactive /\ environ = "" /\ pc = "exited" /\ exitStatus = 0

\* The lines C10 says need no request, told by their words.
NoRequestInput(input) ==
    \/ input.kind # "line"
    \/ input.words = <<>>
    \/ input.words = <<"quit">>
    \/ input.words[1] \notin Verbs
    \/ input.words[1] = "file" /\ Len(input.words) < 3
    \/ input.words[1] \in Verbs \ {"file"} /\ Len(input.words) < 2

\* C10: each input line causes at most one request, and none for a blank line,
\* `quit`, an unrecognised verb or a verb missing a required argument.
C10_AtMostOnePostPerLine ==
    [][pc = "loop" =>
        /\ netCalls' <= netCalls + 1
        /\ NoRequestInput(lastInput') => netCalls' = netCalls]_vars

\* C10, witness: two well-formed commands, the second of which met a refused
\* connection, made two requests.
C10_Witness ==
    /\ pc = "loop"
    /\ nLines = 2
    /\ netCalls = 2
    /\ ~NoRequestInput(lastInput)
    /\ ret = Returned(ConnectionErrorMsg("Connection refused"))

(***************************************************************************)
(* Properties of test_setup.py, checked under SpecDiag                     *)
(***************************************************************************)
\* C9, as claimed: the diagnostics run all eight checks in their fixed order
\* whatever earlier checks found, record one result per check in that order, list
\* every check in the summary, and report success exactly when every check passed.
C9_AllEightChecksReported ==
    diagPc \in {"done", "crashed"}
        => /\ diagPc = "done"
           /\ Len(results) = Len(CheckNames)
           /\ \A i \in DOMAIN results : results[i].name = CheckNames[i]
           /\ Len(summary) = Len(CheckNames)
           /\ \A i \in DOMAIN summary :
                /\ summary[i].name = CheckNames[i]
                /\ summary[i].status = IF results[i].passed THEN "PASS" ELSE "FAIL"
           /\ verdict = "success" <=> \A i \in DOMAIN results : results[i].passed

====
